---- MODULE Spec2Model ----
(***************************************************************************)
(* Model of code-comment-splitter: the line classifier, the comment        *)
(* tolerant equality, the LCS aligner and the hunk walk of                  *)
(* mergeFileKeepingNonComments.  The repository carries two versions of    *)
(* the library: the one with inline-comment stripping (src/unnamed/        *)
(* part_000) and the one that restores deletions (src/unnamed/part_001).   *)
(* Definitions of the second carry the suffix _001.                        *)
(*                                                                         *)
(* A text is a sequence of one-character strings; "\n" separates lines.    *)
(***************************************************************************)
EXTENDS Integers, Sequences, FiniteSets, TLC

(***************************************************************************)
(* Bounds of the explored inputs.                                          *)
(***************************************************************************)
MaxLeftLines == 2

MaxRightLines == 2

NL == "\n"

\* the value of an absent left text (leftText === null)
Null == <<"null">>

\* /\s/ restricted to the characters the inputs use
isSpace(c) == c \in {" ", "\t"}

\* the quote characters of stripInlineComment; "BQ" stands for the backtick,
\* which a TLA+ string cannot hold
Quotes == {"\"", "'", "BQ"}

(***************************************************************************)
(* String primitives of the JavaScript runtime, as the code uses them.     *)
(***************************************************************************)
RECURSIVE trimEnd(_)
trimEnd(s) ==
  IF s = <<>> THEN <<>>
  ELSE IF isSpace(s[Len(s)]) THEN trimEnd(SubSeq(s, 1, Len(s) - 1))
  ELSE s

endsWithNL(text) == Len(text) > 0 /\ text[Len(text)] = NL

\* text.split(/\n/): always at least one element
RECURSIVE splitFrom(_, _, _)
splitFrom(text, p, cur) ==
  IF p > Len(text) THEN <<cur>>
  ELSE IF text[p] = NL THEN <<cur>> \o splitFrom(text, p + 1, <<>>)
  ELSE splitFrom(text, p + 1, Append(cur, text[p]))

split(text) == splitFrom(text, 1, <<>>)

\* lines.join(NL)
RECURSIVE join(_)
join(lines) ==
  IF lines = <<>> THEN <<>>
  ELSE IF Len(lines) = 1 THEN lines[1]
  ELSE lines[1] \o <<NL>> \o join(Tail(lines))

\* /^\s*$/.test(line)
RECURSIVE isBlank(_)
isBlank(line) ==
  IF line = <<>> THEN TRUE
  ELSE isSpace(line[1]) /\ isBlank(Tail(line))

(***************************************************************************)
(* Line classifier.                                                        *)
(***************************************************************************)
\* /^\s*(?:\/\/|#)/.test(line)
RECURSIVE startsWithMarker(_)
startsWithMarker(line) ==
  IF line = <<>> THEN FALSE
  ELSE IF isSpace(line[1]) THEN startsWithMarker(Tail(line))
  ELSE \/ line[1] = "#"
       \/ (line[1] = "/" /\ Len(line) >= 2 /\ line[2] = "/")

isCommentOrWhitespace(line) == startsWithMarker(line) \/ isBlank(line)

\* the scan without the test of the character before the marker
RECURSIVE scanComment_anywhere(_, _, _, _)
scanComment_anywhere(line, i, inString, stringChar) ==
  IF i > Len(line) THEN 0
  ELSE
    LET char == line[i]
        isQuote == char \in Quotes /\ (i = 1 \/ line[i - 1] # "\\")
        inString2 == IF isQuote
                     THEN (IF ~inString THEN TRUE
                           ELSE IF char = stringChar THEN FALSE
                           ELSE inString)
                     ELSE inString
        stringChar2 == IF isQuote
                       THEN (IF ~inString THEN char
                             ELSE IF char = stringChar THEN ""
                             ELSE stringChar)
                       ELSE stringChar
    IN  IF inString2
        THEN scanComment_anywhere(line, i + 1, inString2, stringChar2)
        ELSE IF char = "/" /\ i + 1 <= Len(line) /\ line[i + 1] = "/" THEN i
        ELSE IF char = "#" THEN i
        ELSE scanComment_anywhere(line, i + 1, inString2, stringChar2)

\* the scan of stripInlineComment: the 1-based index of the comment start,
\* or 0 when the loop ends with commentStart = -1
RECURSIVE scanComment(_, _, _, _)
scanComment(line, i, inString, stringChar) ==
  IF i > Len(line) THEN 0
  ELSE
    LET char == line[i]
        isQuote == char \in Quotes /\ (i = 1 \/ line[i - 1] # "\\")
        inString2 == IF isQuote
                     THEN (IF ~inString THEN TRUE
                           ELSE IF char = stringChar THEN FALSE
                           ELSE inString)
                     ELSE inString
        stringChar2 == IF isQuote
                       THEN (IF ~inString THEN char
                             ELSE IF char = stringChar THEN ""
                             ELSE stringChar)
                       ELSE stringChar
        precededOk == i = 1 \/ isSpace(line[i - 1])
    IN  IF inString2 THEN scanComment(line, i + 1, inString2, stringChar2)
        ELSE IF char = "/" /\ i + 1 <= Len(line) /\ line[i + 1] = "/"
             THEN (IF precededOk THEN i
                   ELSE scanComment(line, i + 1, inString2, stringChar2))
        ELSE IF char = "#"
             THEN (IF precededOk THEN i
                   ELSE scanComment(line, i + 1, inString2, stringChar2))
        ELSE scanComment(line, i + 1, inString2, stringChar2)

stripInlineComment(line) ==
  LET commentStart == scanComment(line, 1, FALSE, "")
  IN  IF commentStart = 0 THEN line
      ELSE trimEnd(SubSeq(line, 1, commentStart - 1))

(***************************************************************************)
(* Comment-tolerant equality (part_000) and plain equality (part_001).     *)
(***************************************************************************)
\* the comparison of the stripped forms alone, without the case of two
\* lines that carry no code
equalIgnoringTrailingWhitespace_strippedOnly(a, b) ==
  trimEnd(stripInlineComment(a)) = trimEnd(stripInlineComment(b))

equalIgnoringTrailingWhitespace(a, b) ==
  LET aStripped == trimEnd(stripInlineComment(a))
      bStripped == trimEnd(stripInlineComment(b))
  IN  IF aStripped = <<>> /\ bStripped = <<>>
      THEN trimEnd(a) = trimEnd(b)
      ELSE aStripped = bStripped

equalIgnoringTrailingWhitespace_001(a, b) == trimEnd(a) = trimEnd(b)

(***************************************************************************)
(* normalize: text -> lines and end-of-line convention.                    *)
(***************************************************************************)
\* normalize without the pop of the trailing empty element
normalize_noPop(text) ==
  [lines |-> split(text), eol |-> IF endsWithNL(text) THEN <<NL>> ELSE <<>>]

normalize(text) ==
  LET eol == IF endsWithNL(text) THEN <<NL>> ELSE <<>>
      lines == split(text)
  IN  IF eol # <<>> /\ lines[Len(lines)] = <<>>
      THEN [lines |-> SubSeq(lines, 1, Len(lines) - 1), eol |-> eol]
      ELSE [lines |-> lines, eol |-> eol]

(***************************************************************************)
(* The aligner.  The equality predicate is passed as a function on the     *)
(* lines of the two sequences; dp is indexed from 0 as in the code,        *)
(* dp[i][j] being the LCS length of a[i..] and b[j..].                     *)
(***************************************************************************)
Max(x, y) == IF x >= y THEN x ELSE y

Range(seq) == {seq[x] : x \in 1..Len(seq)}

\* the predicate handed to lcs, as a function on the lines it is applied to
equalityOn(a, b) ==
  [x \in Range(a), y \in Range(b) |-> equalIgnoringTrailingWhitespace(x, y)]

equalityOn_001(a, b) ==
  [x \in Range(a), y \in Range(b) |-> equalIgnoringTrailingWhitespace_001(x, y)]

\* dp left as it is allocated, filled with zeros
fillDp_zeros(dp, a, b, eq, i, j) == dp

\* the two nested for loops that fill dp, from (i, j) downwards
RECURSIVE fillDp(_, _, _, _, _, _)
fillDp(dp, a, b, eq, i, j) ==
  IF i < 0 THEN dp
  ELSE IF j < 0 THEN fillDp(dp, a, b, eq, i - 1, Len(b) - 1)
  ELSE LET v == IF eq[a[i + 1], b[j + 1]] THEN dp[i + 1][j + 1] + 1
                ELSE Max(dp[i + 1][j], dp[i][j + 1])
       IN  fillDp([dp EXCEPT ![i][j] = v], a, b, eq, i, j - 1)

\* the walk without the two loops that drain the longer sequence
RECURSIVE walkOps_noDrain(_, _, _, _, _, _)
walkOps_noDrain(dp, a, b, eq, i, j) ==
  IF i < Len(a) /\ j < Len(b)
  THEN IF eq[a[i + 1], b[j + 1]]
       THEN <<"eq">> \o walkOps_noDrain(dp, a, b, eq, i + 1, j + 1)
       ELSE IF dp[i + 1][j] >= dp[i][j + 1]
            THEN <<"del">> \o walkOps_noDrain(dp, a, b, eq, i + 1, j)
       ELSE <<"ins">> \o walkOps_noDrain(dp, a, b, eq, i, j + 1)
  ELSE <<>>

\* the walk taking the right line when neither direction is better
RECURSIVE walkOps_preferIns(_, _, _, _, _, _)
walkOps_preferIns(dp, a, b, eq, i, j) ==
  IF i < Len(a) /\ j < Len(b)
  THEN IF eq[a[i + 1], b[j + 1]]
       THEN <<"eq">> \o walkOps_preferIns(dp, a, b, eq, i + 1, j + 1)
       ELSE IF dp[i + 1][j] > dp[i][j + 1]
            THEN <<"del">> \o walkOps_preferIns(dp, a, b, eq, i + 1, j)
       ELSE <<"ins">> \o walkOps_preferIns(dp, a, b, eq, i, j + 1)
  ELSE IF i < Len(a) THEN <<"del">> \o walkOps_preferIns(dp, a, b, eq, i + 1, j)
  ELSE IF j < Len(b) THEN <<"ins">> \o walkOps_preferIns(dp, a, b, eq, i, j + 1)
  ELSE <<>>

\* the walk that reconstructs the operations from (i, j)
RECURSIVE walkOps(_, _, _, _, _, _)
walkOps(dp, a, b, eq, i, j) ==
  IF i < Len(a) /\ j < Len(b)
  THEN IF eq[a[i + 1], b[j + 1]] THEN <<"eq">> \o walkOps(dp, a, b, eq, i + 1, j + 1)
       ELSE IF dp[i + 1][j] >= dp[i][j + 1]
            THEN <<"del">> \o walkOps(dp, a, b, eq, i + 1, j)
       ELSE <<"ins">> \o walkOps(dp, a, b, eq, i, j + 1)
  ELSE IF i < Len(a) THEN <<"del">> \o walkOps(dp, a, b, eq, i + 1, j)
  ELSE IF j < Len(b) THEN <<"ins">> \o walkOps(dp, a, b, eq, i, j + 1)
  ELSE <<>>

lcs(a, b, eq) ==
  LET n == Len(a)
      m == Len(b)
      dp0 == [i \in 0..n |-> [j \in 0..m |-> 0]]
      dp == fillDp(dp0, a, b, eq, n - 1, m - 1)
  IN  walkOps(dp, a, b, eq, 0, 0)

(***************************************************************************)
(* mergeFileKeepingNonComments of part_000, piece by piece.  A walk state  *)
(* is [i, j, k, out]: the 1-based cursors into the left lines, the right   *)
(* lines and the operations, and the output lines so far.                  *)
(***************************************************************************)
present(leftText) == leftText # Null /\ leftText # <<>>

leftNormOf(leftText, rightText) ==
  IF present(leftText) THEN normalize(leftText)
  ELSE [lines |-> <<>>, eol |-> IF endsWithNL(rightText) THEN <<NL>> ELSE <<>>]

\* the 'eq' branch pushing the right line
equalEmit_right(leftLine, rightLine) == rightLine

\* the 'eq' branch pushing the right line when the two lines differ
equalEmit_rightOnDiff(leftLine, rightLine) ==
  IF trimEnd(leftLine) = trimEnd(rightLine) THEN leftLine
  ELSE rightLine

\* the line pushed for an 'eq' operation
equalEmit(leftLine, rightLine) ==
  IF trimEnd(leftLine) = trimEnd(rightLine) THEN leftLine
  ELSE stripInlineComment(leftLine)

\* the index at which the inner while loop stops: the next 'eq' or the end
RECURSIVE hunkEnd(_, _)
hunkEnd(ops, k) ==
  IF k <= Len(ops) /\ ops[k] # "eq" THEN hunkEnd(ops, k + 1) ELSE k

countOp(ops, k, k2, op) == Cardinality({x \in k..(k2 - 1) : ops[x] = op})

\* the insertion loop without the skip of full-line comments
RECURSIVE processInsertions_keepComments(_)
processInsertions_keepComments(ins) ==
  IF ins = <<>> THEN <<>>
  ELSE LET line == Head(ins)
           rest == processInsertions_keepComments(Tail(ins))
       IN  IF isBlank(line) THEN <<(<<>>)>> \o rest
           ELSE <<stripInlineComment(line)>> \o rest

\* the insertion loop pushing code lines as they are
RECURSIVE processInsertions_noStrip(_)
processInsertions_noStrip(ins) ==
  IF ins = <<>> THEN <<>>
  ELSE LET line == Head(ins)
           rest == processInsertions_noStrip(Tail(ins))
       IN  IF isBlank(line) THEN <<(<<>>)>> \o rest
           ELSE IF isCommentOrWhitespace(line) THEN rest
           ELSE <<line>> \o rest

\* the insertion loop dropping every comment-or-blank line
RECURSIVE processInsertions_dropBlank(_)
processInsertions_dropBlank(ins) ==
  IF ins = <<>> THEN <<>>
  ELSE LET line == Head(ins)
           rest == processInsertions_dropBlank(Tail(ins))
       IN  IF isCommentOrWhitespace(line) THEN rest
           ELSE <<stripInlineComment(line)>> \o rest

\* the loop over the inserted lines of a hunk
RECURSIVE processInsertions(_)
processInsertions(ins) ==
  IF ins = <<>> THEN <<>>
  ELSE LET line == Head(ins)
           rest == processInsertions(Tail(ins))
       IN  IF isBlank(line) THEN <<(<<>>)>> \o rest
           ELSE IF isCommentOrWhitespace(line) THEN rest
           ELSE <<stripInlineComment(line)>> \o rest

\* a loop iteration that pushes the deleted comment-or-blank lines of a hunk
walkStep_restoreDels(L, R, ops, st) ==
  IF ops[st.k] = "eq"
  THEN [i |-> st.i + 1, j |-> st.j + 1, k |-> st.k + 1,
        out |-> Append(st.out, equalEmit(L[st.i], R[st.j]))]
  ELSE LET k2 == hunkEnd(ops, st.k)
           nd == countOp(ops, st.k, k2, "del")
           ni == countOp(ops, st.k, k2, "ins")
           dels == SubSeq(L, st.i, st.i + nd - 1)
           ins == SubSeq(R, st.j, st.j + ni - 1)
       IN  [i |-> st.i + nd, j |-> st.j + ni, k |-> k2,
            out |-> st.out \o SelectSeq(dels, isCommentOrWhitespace)
                           \o processInsertions(ins)]

\* one iteration of the for loop over the operations
walkStep(L, R, ops, st) ==
  IF ops[st.k] = "eq"
  THEN [i |-> st.i + 1, j |-> st.j + 1, k |-> st.k + 1,
        out |-> Append(st.out, equalEmit(L[st.i], R[st.j]))]
  ELSE LET k2 == hunkEnd(ops, st.k)
           nd == countOp(ops, st.k, k2, "del")
           ni == countOp(ops, st.k, k2, "ins")
           ins == SubSeq(R, st.j, st.j + ni - 1)
       IN  [i |-> st.i + nd, j |-> st.j + ni, k |-> k2,
            out |-> st.out \o processInsertions(ins)]

\* the return statement following the right text's convention
finish_rightEol(leftText, rightNorm, out) ==
  IF out = <<>> THEN <<>> ELSE join(out) \o rightNorm.eol

\* the return statement
finish(leftText, rightNorm, out) ==
  IF out = <<>> THEN <<>>
  ELSE join(out) \o (IF present(leftText)
                     THEN (IF endsWithNL(leftText) THEN <<NL>> ELSE <<>>)
                     ELSE rightNorm.eol)

RECURSIVE walkAll(_, _, _, _)
walkAll(L, R, ops, st) ==
  IF st.k > Len(ops) THEN st.out
  ELSE walkAll(L, R, ops, walkStep(L, R, ops, st))

walkStart == [i |-> 1, j |-> 1, k |-> 1, out |-> <<>>]

mergeFileKeepingNonComments(leftText, rightText) ==
  LET leftN == leftNormOf(leftText, rightText)
      rightN == normalize(rightText)
      opsN == lcs(leftN.lines, rightN.lines, equalityOn(leftN.lines, rightN.lines))
  IN  finish(leftText, rightN, walkAll(leftN.lines, rightN.lines, opsN, walkStart))

(***************************************************************************)
(* mergeFileKeepingNonComments of part_001.                                *)
(***************************************************************************)
leftNormOf_001(leftText, rightText) ==
  IF leftText # Null THEN normalize(leftText)
  ELSE [lines |-> <<>>, eol |-> IF endsWithNL(rightText) THEN <<NL>> ELSE <<>>]

\* the index at which a while loop over one kind of operation stops
RECURSIVE runEnd_001(_, _, _)
runEnd_001(ops, k, op) ==
  IF k <= Len(ops) /\ ops[k] = op THEN runEnd_001(ops, k + 1, op) ELSE k

notComment(line) == ~isCommentOrWhitespace(line)

\* ins.some((line) => !isCommentOrWhitespace(line))
insHasNonComment_001(ins) == \E x \in 1..Len(ins) : ~isCommentOrWhitespace(ins[x])

\* a hunk that pushes no deleted line once code is inserted
hunkEmit_dropDels(dels, ins) ==
  IF ~insHasNonComment_001(ins) THEN dels
  ELSE SelectSeq(ins, notComment)

\* a hunk that pushes every deleted line, whatever is inserted
hunkEmit_keepAllDels(dels, ins) ==
  IF ~insHasNonComment_001(ins) THEN dels
  ELSE dels \o SelectSeq(ins, notComment)

\* the lines a hunk pushes
hunkEmit_001(dels, ins) ==
  IF ~insHasNonComment_001(ins) THEN dels
  ELSE SelectSeq(dels, isCommentOrWhitespace) \o SelectSeq(ins, notComment)

walkStep_001(L, R, ops, st) ==
  IF ops[st.k] = "eq"
  THEN [i |-> st.i + 1, j |-> st.j + 1, k |-> st.k + 1,
        out |-> Append(st.out, L[st.i])]
  ELSE LET kd == runEnd_001(ops, st.k, "del")
           k2 == runEnd_001(ops, kd, "ins")
           dels == SubSeq(L, st.i, st.i + (kd - st.k) - 1)
           ins == SubSeq(R, st.j, st.j + (k2 - kd) - 1)
       IN  [i |-> st.i + (kd - st.k), j |-> st.j + (k2 - kd), k |-> k2,
            out |-> st.out \o hunkEmit_001(dels, ins)]

finish_001(leftText, rightNorm, out) ==
  join(out) \o (IF leftText # Null
                THEN (IF endsWithNL(leftText) THEN <<NL>> ELSE <<>>)
                ELSE rightNorm.eol)

RECURSIVE walkAll_001(_, _, _, _)
walkAll_001(L, R, ops, st) ==
  IF st.k > Len(ops) THEN st.out
  ELSE walkAll_001(L, R, ops, walkStep_001(L, R, ops, st))

mergeFileKeepingNonComments_001(leftText, rightText) ==
  LET leftN == leftNormOf_001(leftText, rightText)
      rightN == normalize(rightText)
      opsN == lcs(leftN.lines, rightN.lines,
                 equalityOn_001(leftN.lines, rightN.lines))
  IN  finish_001(leftText, rightN,
                 walkAll_001(leftN.lines, rightN.lines, opsN, walkStart))

(***************************************************************************)
(* Inputs.                                                                 *)
(***************************************************************************)
\* the lines the explored texts are made of: two code lines, an empty and a
\* whitespace-only line, a full-line comment, and code with an inline comment
Lines ==
  { <<"a">>, <<"b">>, <<>>, <<" ">>, <<"#">>, <<"a", " ", "/", "/">> }

SeqsUpTo(S, n) == UNION {[1..len -> S] : len \in 0..n}

Texts(n) == {join(ls) \o t : ls \in SeqsUpTo(Lines, n), t \in {<<>>, <<NL>>}}

(***************************************************************************)
(* State: one call of mergeFileKeepingNonComments(leftText, rightText),    *)
(* followed by a second call on its own result.                            *)
(***************************************************************************)
VARIABLES leftText, rightText, pc, leftNorm, rightNorm, ops, st, merged,
          pass, first

\* one call of stripInlineComment(lineA) or of
\* equalIgnoringTrailingWhitespace(lineA, lineB)
VARIABLES lineA, lineB, lpc, stripped, equal

\* one call of lcs(seqA, seqB, equalIgnoringTrailingWhitespace)
VARIABLES seqA, seqB, alignOps, apc

\* one run of processTreesKeepingNonComments(left, right): the files under
\* the two roots, the directories under each root, the right files as
\* they were before the run, the set of relative paths, the paths the loop
\* has been through, and the file-system calls made so far
VARIABLES leftTree, leftDirs, rightTree, rightDirs, right0, relPaths, handled,
          tpc, fsCalls

mergeVars == <<leftText, rightText, pc, leftNorm, rightNorm, ops, st, merged,
               pass, first>>

lineVars == <<lineA, lineB, lpc, stripped, equal>>

treeVars == <<leftTree, leftDirs, rightTree, rightDirs, right0, relPaths,
              handled, tpc, fsCalls>>

alignVars == <<seqA, seqB, alignOps, apc>>

vars == <<mergeVars, lineVars, alignVars, treeVars>>

noNorm == [lines |-> <<>>, eol |-> <<>>]

\* no call of the line functions is under way
IdleLine ==
  /\ lineA = <<>>
  /\ lineB = <<>>
  /\ lpc = "idle"
  /\ stripped = <<>>
  /\ equal = FALSE

\* no call of lcs is under way
IdleAlign ==
  /\ seqA = <<>>
  /\ seqB = <<>>
  /\ alignOps = <<>>
  /\ apc = "idle"

\* no run over the trees is under way
IdleTree ==
  /\ leftTree = <<>>
  /\ leftDirs = {}
  /\ rightTree = <<>>
  /\ rightDirs = {}
  /\ right0 = <<>>
  /\ relPaths = {}
  /\ handled = {}
  /\ tpc = "idle"
  /\ fsCalls = {}

\* no call of mergeFileKeepingNonComments is under way
IdleMerge ==
  /\ leftText = Null
  /\ rightText = <<>>
  /\ pc = "idle"
  /\ leftNorm = noNorm
  /\ rightNorm = noNorm
  /\ ops = <<>>
  /\ st = walkStart
  /\ merged = <<>>
  /\ pass = 1
  /\ first = <<>>

Init ==
  /\ IdleLine
  /\ IdleAlign
  /\ IdleTree
  /\ leftText \in {Null} \cup Texts(MaxLeftLines)
  /\ rightText \in Texts(MaxRightLines)
  /\ pc = "call"
  /\ leftNorm = noNorm
  /\ rightNorm = noNorm
  /\ ops = <<>>
  /\ st = walkStart
  /\ merged = <<>>
  /\ pass = 1
  /\ first = <<>>

\* part_000 lines 98-103: normalize both texts, align, start the walk
Start ==
  /\ pc = "call"
  /\ leftNorm' = leftNormOf(leftText, rightText)
  /\ rightNorm' = normalize(rightText)
  /\ ops' = lcs(leftNorm'.lines, rightNorm'.lines,
              equalityOn(leftNorm'.lines, rightNorm'.lines))
  /\ st' = walkStart
  /\ pc' = "loop"
  /\ UNCHANGED <<leftText, rightText, merged, pass, first>>
  /\ UNCHANGED <<lineVars, alignVars, treeVars>>

\* part_000 lines 106-120: an 'eq' operation
EqualStep ==
  /\ pc = "loop"
  /\ st.k <= Len(ops)
  /\ ops[st.k] = "eq"
  /\ st' = walkStep(leftNorm.lines, rightNorm.lines, ops, st)
  /\ UNCHANGED <<leftText, rightText, pc, leftNorm, rightNorm, ops, merged, pass, first>>
  /\ UNCHANGED <<lineVars, alignVars, treeVars>>

\* part_000 lines 122-153: a hunk of non-'eq' operations
HunkStep ==
  /\ pc = "loop"
  /\ st.k <= Len(ops)
  /\ ops[st.k] # "eq"
  /\ st' = walkStep(leftNorm.lines, rightNorm.lines, ops, st)
  /\ UNCHANGED <<leftText, rightText, pc, leftNorm, rightNorm, ops, merged, pass, first>>
  /\ UNCHANGED <<lineVars, alignVars, treeVars>>

\* part_000 lines 156-159
Return ==
  /\ pc = "loop"
  /\ st.k > Len(ops)
  /\ merged' = finish(leftText, rightNorm, st.out)
  /\ pc' = "done"
  /\ UNCHANGED <<leftText, rightText, leftNorm, rightNorm, ops, st, pass, first>>
  /\ UNCHANGED <<lineVars, alignVars, treeVars>>

\* the caller merges again, with the result as the right text
Rerun ==
  /\ pc = "done"
  /\ pass = 1
  /\ first' = merged
  /\ rightText' = merged
  /\ pass' = 2
  /\ pc' = "call"
  /\ leftNorm' = noNorm
  /\ rightNorm' = noNorm
  /\ ops' = <<>>
  /\ st' = walkStart
  /\ merged' = <<>>
  /\ UNCHANGED leftText
  /\ UNCHANGED <<lineVars, alignVars, treeVars>>

Next == Start \/ EqualStep \/ HunkStep \/ Return \/ Rerun

Spec == Init /\ [][Next]_vars

\* part_001 lines 45-51
Start_001 ==
  /\ pc = "call"
  /\ leftNorm' = leftNormOf_001(leftText, rightText)
  /\ rightNorm' = normalize(rightText)
  /\ ops' = lcs(leftNorm'.lines, rightNorm'.lines,
              equalityOn_001(leftNorm'.lines, rightNorm'.lines))
  /\ st' = walkStart
  /\ pc' = "loop"
  /\ UNCHANGED <<leftText, rightText, merged, pass, first>>
  /\ UNCHANGED <<lineVars, alignVars, treeVars>>

\* part_001 lines 54-57
EqualStep_001 ==
  /\ pc = "loop"
  /\ st.k <= Len(ops)
  /\ ops[st.k] = "eq"
  /\ st' = walkStep_001(leftNorm.lines, rightNorm.lines, ops, st)
  /\ UNCHANGED <<leftText, rightText, pc, leftNorm, rightNorm, ops, merged, pass, first>>
  /\ UNCHANGED <<lineVars, alignVars, treeVars>>

\* part_001 lines 59-83
HunkStep_001 ==
  /\ pc = "loop"
  /\ st.k <= Len(ops)
  /\ ops[st.k] # "eq"
  /\ st' = walkStep_001(leftNorm.lines, rightNorm.lines, ops, st)
  /\ UNCHANGED <<leftText, rightText, pc, leftNorm, rightNorm, ops, merged, pass, first>>
  /\ UNCHANGED <<lineVars, alignVars, treeVars>>

\* part_001 line 86
Return_001 ==
  /\ pc = "loop"
  /\ st.k > Len(ops)
  /\ merged' = finish_001(leftText, rightNorm, st.out)
  /\ pc' = "done"
  /\ UNCHANGED <<leftText, rightText, leftNorm, rightNorm, ops, st, pass, first>>
  /\ UNCHANGED <<lineVars, alignVars, treeVars>>

Next_001 == Start_001 \/ EqualStep_001 \/ HunkStep_001 \/ Return_001 \/ Rerun

Spec_001 == Init /\ [][Next_001]_vars

\* the state and the whole function agree
MergedIsFunction ==
  (pc = "done") => merged = mergeFileKeepingNonComments(leftText, rightText)

MergedIsFunction_001 ==
  (pc = "done") => merged = mergeFileKeepingNonComments_001(leftText, rightText)

(***************************************************************************)
(* Vocabulary of the claims.                                               *)
(***************************************************************************)
\* the lines of a text as a reader counts them: the empty text has none
LinesOf(text) == IF text = <<>> THEN <<>> ELSE normalize(text).lines

\* a non-blank full-line comment
isFullLineComment(line) == startsWithMarker(line)

\* R is L with non-blank full-line comment lines inserted
RECURSIVE InsertsOnlyComments(_, _)
InsertsOnlyComments(L, R) ==
  IF R = <<>> THEN L = <<>>
  ELSE \/ (L # <<>> /\ Head(L) = Head(R) /\ InsertsOnlyComments(Tail(L), Tail(R)))
       \/ (isFullLineComment(Head(R)) /\ InsertsOnlyComments(L, Tail(R)))

CommentOnlyEdit ==
  /\ leftText # Null
  /\ InsertsOnlyComments(LinesOf(leftText), LinesOf(rightText))

FirstDone == pc = "done" /\ pass = 1

\* C1: when the right text is the left text with non-blank full-line comment
\* lines inserted, the merge returns the left text unchanged.
C1_CommentOnlyEditSuppressed ==
  (FirstDone /\ CommentOnlyEdit) => merged = leftText

C1_Witness ==
  /\ FirstDone
  /\ CommentOnlyEdit
  /\ Len(LinesOf(rightText)) > Len(LinesOf(leftText))
  /\ Len(LinesOf(leftText)) > 0
  /\ merged = leftText

\* C8: merging the result of a merge again with the same left text yields
\* the same result.
C8_Idempotent ==
  (pc = "done" /\ pass = 2) => merged = first

\* C9: merging a text that contains no comment lines with itself yields it.
NoCommentLines(text) ==
  \A x \in 1..Len(LinesOf(text)) : ~isFullLineComment(LinesOf(text)[x])

C9_NoOpRoundTrip ==
  (FirstDone /\ leftText = rightText /\ NoCommentLines(rightText))
    => merged = rightText

(***************************************************************************)
(* The hunk the walk is about to process, as the alignment defines it: the *)
(* maximal run of non-'eq' operations starting at st.k, its deleted left   *)
(* lines and its inserted right lines.                                     *)
(***************************************************************************)
AtEqual == pc = "loop" /\ st.k <= Len(ops) /\ ops[st.k] = "eq"

AtHunk == pc = "loop" /\ st.k <= Len(ops) /\ ops[st.k] # "eq"

HunkStop == hunkEnd(ops, st.k)

HunkDels ==
  SubSeq(leftNorm.lines, st.i, st.i + countOp(ops, st.k, HunkStop, "del") - 1)

HunkIns ==
  SubSeq(rightNorm.lines, st.j, st.j + countOp(ops, st.k, HunkStop, "ins") - 1)

\* the lines a step appends to the output
Emitted == SubSeq(st'.out, Len(st.out) + 1, Len(st'.out))

HasCode(lines) == \E x \in 1..Len(lines) : ~isCommentOrWhitespace(lines[x])

isCode(line) == ~isCommentOrWhitespace(line)

keptInsertion(line) == isBlank(line) \/ isCode(line)

RECURSIVE InsertionPolicy(_, _)
InsertionPolicy(ins, verbatim) ==
  IF ins = <<>> THEN <<>>
  ELSE LET rest == InsertionPolicy(Tail(ins), verbatim)
       IN  IF isBlank(Head(ins))
           THEN <<(IF verbatim THEN Head(ins) ELSE <<>>)>> \o rest
           ELSE IF isFullLineComment(Head(ins)) THEN rest
           ELSE <<stripInlineComment(Head(ins))>> \o rest

\* C5 as stated in the specification: in a hunk with inserted code, blank
\* inserted lines are emitted verbatim, full-line comments are dropped and
\* code lines are emitted with the inline comment stripped.
C5_Original ==
  [][(AtHunk /\ HasCode(HunkIns)) => Emitted = InsertionPolicy(HunkIns, TRUE)]_vars

\* C5 (amended): in a hunk with inserted code, each blank inserted line is
\* emitted as an empty line, each full-line comment is dropped and each code
\* line is emitted with the inline comment stripped, in order.
C5_InsertionPolicy ==
  [][(AtHunk /\ HasCode(HunkIns)) => Emitted = InsertionPolicy(HunkIns, FALSE)]_vars

\* a hunk that inserted a whitespace-only line and a code line
C5_Witness ==
  /\ FirstDone
  /\ Len(ops) = 2
  /\ \A x \in 1..2 : ops[x] = "ins"
  /\ \E x \in 1..2 : rightNorm.lines[x] # <<>> /\ isBlank(rightNorm.lines[x])
  /\ \E x \in 1..2 : isCode(rightNorm.lines[x])
  /\ Len(st.out) = 2

\* C6: in every hunk, with or without inserted code, the blank lines the
\* step emits are empty lines, one per blank inserted line, and the
\* full-line comments leave nothing: the number of emitted lines is the
\* number of blank plus the number of code insertions.
C6_BlankInsertionsPreserved ==
  [][AtHunk =>
       /\ SelectSeq(Emitted, isBlank)
            = [x \in 1..Len(SelectSeq(HunkIns, isBlank)) |-> <<>>]
       /\ Len(Emitted) = Len(SelectSeq(HunkIns, isBlank)) + Len(SelectSeq(HunkIns, isCode))]_vars

\* a hunk that inserts a full-line comment and a whitespace-only line but no
\* code: the output is exactly one empty line
C6_Witness ==
  /\ FirstDone
  /\ ops = <<"ins", "ins">>
  /\ isFullLineComment(rightNorm.lines[1])
  /\ isBlank(rightNorm.lines[2])
  /\ rightNorm.lines[2] # <<>>
  /\ st.out = <<(<<>>)>>

\* C7: an 'eq' step emits the left line verbatim when the two lines are
\* identical after trimming trailing whitespace, and the left line with its
\* inline comment stripped otherwise.
C7_EqualRule ==
  [][AtEqual =>
       LET l == leftNorm.lines[st.i]
           r == rightNorm.lines[st.j]
       IN  /\ st'.i = st.i + 1 /\ st'.j = st.j + 1 /\ st'.k = st.k + 1
           /\ Emitted = <<IF trimEnd(l) = trimEnd(r) THEN l
                          ELSE stripInlineComment(l)>>]_vars

\* an inline comment added on the right did not reach the output, or one
\* removed on the right was stripped from the left line
C7_Witness ==
  /\ FirstDone
  /\ ops = <<"eq">>
  /\ trimEnd(leftNorm.lines[1]) # trimEnd(rightNorm.lines[1])
  /\ st.out = <<stripInlineComment(leftNorm.lines[1])>>
  /\ st.out # <<rightNorm.lines[1]>>

\* the terminator of the merged text
Terminator ==
  IF present(leftText) THEN (IF endsWithNL(leftText) THEN <<NL>> ELSE <<>>)
  ELSE (IF endsWithNL(rightText) THEN <<NL>> ELSE <<>>)

\* C10 as stated in the specification: only a present, non-empty left with
\* an empty output yields the empty text.
C10_Original ==
  (pc = "done") =>
     merged = IF present(leftText) /\ st.out = <<>> THEN <<>>
              ELSE join(st.out) \o Terminator

\* C10 (amended): the merged text is empty whenever the output line sequence
\* is empty, whether or not the left text is present; otherwise it is the
\* output lines joined with newline followed by the terminator, which
\* follows the left text when present and non-empty and the right text
\* otherwise.
C10_TrailingNewline ==
  (pc = "done") =>
     merged = IF st.out = <<>> THEN <<>> ELSE join(st.out) \o Terminator

\* a left text without final newline merged with a right text that has one:
\* the merged text has none
C10_Witness ==
  /\ FirstDone
  /\ st.out # <<>>
  /\ present(leftText)
  /\ ~endsWithNL(leftText)
  /\ endsWithNL(rightText)
  /\ merged = join(st.out)

\* a two-line text without comment lines and without final newline, merged
\* with itself
C9_Witness ==
  /\ FirstDone
  /\ leftText = rightText
  /\ NoCommentLines(rightText)
  /\ Len(LinesOf(rightText)) = 2
  /\ ~endsWithNL(rightText)
  /\ merged = rightText


(***************************************************************************)
(* Calls of stripInlineComment on single lines.                            *)
(***************************************************************************)
MaxLineLen == 5

\* the characters of the lines: a code character, a space, the two comment
\* markers, two quote characters and the backslash
LineChars == {"a", " ", "/", "#", "'", "\"", "\\"}

InitStrip ==
  /\ IdleMerge
  /\ IdleAlign
  /\ IdleTree
  /\ lineA \in SeqsUpTo(LineChars, MaxLineLen)
  /\ lineB = <<>>
  /\ lpc = "call"
  /\ stripped = <<>>
  /\ equal = FALSE

Strip ==
  /\ lpc = "call"
  /\ stripped' = stripInlineComment(lineA)
  /\ lpc' = "done"
  /\ UNCHANGED <<lineA, lineB, equal>>
  /\ UNCHANGED <<mergeVars, alignVars, treeVars>>

NextStrip == Strip

SpecStrip == InitStrip /\ [][NextStrip]_vars

\* the quote that is open after the first p characters of the line ("" when
\* none is), a quote after a backslash being an ordinary character
RECURSIVE openQuoteAfter(_, _)
openQuoteAfter(line, p) ==
  IF p = 0 THEN ""
  ELSE LET before == openQuoteAfter(line, p - 1)
           toggles == line[p] \in Quotes /\ (p = 1 \/ line[p - 1] # "\\")
       IN  IF ~toggles THEN before
           ELSE IF before = "" THEN line[p]
           ELSE IF line[p] = before THEN ""
           ELSE before

isMarkerAt(line, p) ==
  \/ line[p] = "#"
  \/ (line[p] = "/" /\ p < Len(line) /\ line[p + 1] = "/")

\* the positions where a trailing comment may start
CommentStarts(line) ==
  { p \in 1..Len(line) :
      /\ isMarkerAt(line, p)
      /\ openQuoteAfter(line, p) = ""
      /\ (p = 1 \/ isSpace(line[p - 1])) }

Min(S) == CHOOSE x \in S : \A y \in S : x <= y

\* C11: stripInlineComment cuts the line at the first // or # that is outside
\* a quoted string and at column 0 or right after whitespace, and right-trims
\* what is kept; without such a position the line is returned unchanged.
C11_StripAtFirstMarker ==
  lpc = "done" =>
    stripped = IF CommentStarts(lineA) = {} THEN lineA
               ELSE trimEnd(SubSeq(lineA, 1, Min(CommentStarts(lineA)) - 1))

\* a marker inside a string is passed over and the comment after the string
\* is cut, with the space before it
C11_Witness ==
  /\ lpc = "done"
  /\ lineA = <<"'", "#", "'", " ", "#">>
  /\ stripped = <<"'", "#", "'">>


(***************************************************************************)
(* Calls of equalIgnoringTrailingWhitespace on pairs of lines.             *)
(***************************************************************************)
MaxPairLen == 3

\* the characters of the compared lines: a code character, a space, the
\* two comment markers and a quote character
PairChars == {"a", " ", "#", "/", "'"}

InitEq ==
  /\ IdleMerge
  /\ IdleAlign
  /\ IdleTree
  /\ lineA \in SeqsUpTo(PairChars, MaxPairLen)
  /\ lineB \in SeqsUpTo(PairChars, MaxPairLen)
  /\ lpc = "call"
  /\ stripped = <<>>
  /\ equal = FALSE

Compare ==
  /\ lpc = "call"
  /\ equal' = equalIgnoringTrailingWhitespace(lineA, lineB)
  /\ lpc' = "done"
  /\ UNCHANGED <<lineA, lineB, stripped>>
  /\ UNCHANGED <<mergeVars, alignVars, treeVars>>

NextEq == Compare

SpecEq == InitEq /\ [][NextEq]_vars

\* the code of a line: what is left of it without its trailing comment and
\* trailing whitespace
codeOf(line) == trimEnd(stripInlineComment(line))

\* C20: two lines are equal iff their stripped and right-trimmed forms are
\* both non-empty and identical, or both are empty and the original lines are
\* identical after right-trimming; a line with code never equals a line
\* without code, and two full-line comments that differ (after
\* right-trimming) are never equal.
C20_CommentTolerantEquality ==
  lpc = "done" =>
    /\ equal <=> \/ /\ codeOf(lineA) # <<>>
                    /\ codeOf(lineB) # <<>>
                    /\ codeOf(lineA) = codeOf(lineB)
                 \/ /\ codeOf(lineA) = <<>>
                    /\ codeOf(lineB) = <<>>
                    /\ trimEnd(lineA) = trimEnd(lineB)
    /\ (codeOf(lineA) = <<>>) # (codeOf(lineB) = <<>>) => ~equal
    /\ ( /\ isFullLineComment(lineA)
         /\ isFullLineComment(lineB)
         /\ trimEnd(lineA) # trimEnd(lineB) ) => ~equal

\* two lines with the same code compare equal although only one of them has a
\* trailing comment
C20_Witness ==
  /\ lpc = "done"
  /\ lineA = <<"a", " ", "#">>
  /\ lineB = <<"a">>
  /\ equal


(***************************************************************************)
(* The alignment inside mergeFileKeepingNonComments.                       *)
(***************************************************************************)
\* the number of operations of the given kinds among the first k
consumed(k, kinds) == Cardinality({x \in 1..k : ops[x] \in kinds})

\* C12: the operations of the aligner consume every left index through
\* Equal/Delete and every right index through Equal/Insert, in increasing
\* order and once each (#Equal + #Delete = left length, #Equal + #Insert =
\* right length), empty sequences included; the cursors of the walk in
\* mergeFileKeepingNonComments stand at the lines consumed so far and no step
\* reads a line out of range.
C12_AlignmentCoverage ==
  pc = "loop" =>
    /\ consumed(Len(ops), {"eq", "del"}) = Len(leftNorm.lines)
    /\ consumed(Len(ops), {"eq", "ins"}) = Len(rightNorm.lines)
    /\ st.k \in 1..(Len(ops) + 1)
    /\ st.i = consumed(st.k - 1, {"eq", "del"}) + 1
    /\ st.j = consumed(st.k - 1, {"eq", "ins"}) + 1
    /\ AtEqual => st.i <= Len(leftNorm.lines) /\ st.j <= Len(rightNorm.lines)
    /\ AtHunk =>
         /\ st.i + countOp(ops, st.k, HunkStop, "del") - 1 <= Len(leftNorm.lines)
         /\ st.j + countOp(ops, st.k, HunkStop, "ins") - 1 <= Len(rightNorm.lines)
    /\ st.k = Len(ops) + 1 =>
         st.i = Len(leftNorm.lines) + 1 /\ st.j = Len(rightNorm.lines) + 1

\* the walk has gone through an Equal, a Delete and an Insert and stands at
\* the end of both sequences
C12_Witness ==
  /\ pc = "loop"
  /\ ops = <<"eq", "del", "ins">>
  /\ st.k = 4
  /\ st.i = 3
  /\ st.j = 3


(***************************************************************************)
(* Calls of lcs on pairs of line sequences, with the predicate that        *)
(* mergeFileKeepingNonComments passes.                                     *)
(***************************************************************************)
MaxAlignLen == 3

\* the lines of the aligned sequences: a code line, the same code with a
\* trailing comment, another code line and a full-line comment
AlignLines == { <<"a">>, <<"a", " ", "#">>, <<"b">>, <<"#">> }

InitAlign ==
  /\ IdleMerge
  /\ IdleLine
  /\ IdleTree
  /\ seqA \in SeqsUpTo(AlignLines, MaxAlignLen)
  /\ seqB \in SeqsUpTo(AlignLines, MaxAlignLen)
  /\ alignOps = <<>>
  /\ apc = "call"

Align ==
  /\ apc = "call"
  /\ alignOps' = lcs(seqA, seqB, equalityOn(seqA, seqB))
  /\ apc' = "done"
  /\ UNCHANGED <<seqA, seqB>>
  /\ UNCHANGED <<mergeVars, lineVars, treeVars>>

NextAlign == Align

SpecAlign == InitAlign /\ [][NextAlign]_vars

\* C18: in the operations the aligner returns no Insert is immediately
\* followed by a Delete, so every run of non-Equal operations is a block of
\* Deletes followed by a block of Inserts.
C18_DeletesBeforeInserts ==
  apc = "done" =>
    \A x \in 1..(Len(alignOps) - 1) :
      ~(alignOps[x] = "ins" /\ alignOps[x + 1] = "del")

\* a hunk of a Delete and then an Insert, between two Equals
C18_Witness ==
  /\ apc = "done"
  /\ \E x \in 1..(Len(alignOps) - 3) :
       /\ alignOps[x] = "eq"
       /\ alignOps[x + 1] = "del"
       /\ alignOps[x + 2] = "ins"
       /\ alignOps[x + 3] = "eq"


\* the predicate on the lines of the aligned sequences, as a table
accepts ==
  [x \in AlignLines, y \in AlignLines |-> equalIgnoringTrailingWhitespace(x, y)]

\* the length of a longest common subsequence of x and y under the
\* predicate, by trying every way to go on
RECURSIVE LcsLen(_, _)
LcsLen(x, y) ==
  IF x = <<>> \/ y = <<>> THEN 0
  ELSE LET skipLeft == LcsLen(Tail(x), y)
           skipRight == LcsLen(x, Tail(y))
           match == IF accepts[Head(x), Head(y)]
                    THEN 1 + LcsLen(Tail(x), Tail(y))
                    ELSE 0
       IN  Max(match, Max(skipLeft, skipRight))

\* what is left of a sequence after its first n elements
From(seq, n) == SubSeq(seq, n + 1, Len(seq))

\* the operations from the k-th on, read with i left and j right lines
\* consumed: an Equal pairs two lines the predicate accepts, and an Insert
\* while left lines remain is taken only where skipping the right line is
\* strictly better than skipping the left one
RECURSIVE stepsOk(_, _, _)
stepsOk(k, i, j) ==
  IF k > Len(alignOps) THEN TRUE
  ELSE LET op == alignOps[k]
       IN  /\ op = "eq" =>
                /\ i < Len(seqA)
                /\ j < Len(seqB)
                /\ accepts[seqA[i + 1], seqB[j + 1]]
           /\ (op = "ins" /\ i < Len(seqA)) =>
                LcsLen(From(seqA, i), From(seqB, j + 1))
                  > LcsLen(From(seqA, i + 1), From(seqB, j))
           /\ stepsOk(k + 1,
                      IF op \in {"eq", "del"} THEN i + 1 ELSE i,
                      IF op \in {"eq", "ins"} THEN j + 1 ELSE j)

\* C19: every Equal operation pairs a left and a right line that satisfy the
\* predicate, the number of Equal operations is the length of a longest
\* common subsequence under the predicate, and where neither direction is
\* strictly better the walk emits Delete, not Insert.
C19_AlignmentOptimal ==
  apc = "done" =>
    /\ stepsOk(1, 0, 0)
    /\ Cardinality({x \in 1..Len(alignOps) : alignOps[x] = "eq"})
         = LcsLen(seqA, seqB)

\* both directions keep one pair; the walk deletes first and a line carrying
\* a trailing comment is paired with its code
C19_Witness ==
  /\ apc = "done"
  /\ seqA = << <<"b">>, <<"a", " ", "#">> >>
  /\ seqB = << <<"a">>, <<"b">> >>
  /\ alignOps = <<"del", "eq", "ins">>


(***************************************************************************)
(* processTreesKeepingNonComments.  A relative path is the sequence of its *)
(* names; a tree maps each path to the text of its file, or to Null where  *)
(* there is no file.                                                       *)
(***************************************************************************)
Instructions == <<"JJ-INSTRUCTIONS">>

\* a file at the top, a file in a subdirectory, and the reserved file
Paths == { <<"f">>, <<"d", "f">>, Instructions }

\* the texts of the files: code, code with a trailing comment, a comment
\* alone, a comment before code without final newline, and the empty file
FileTexts ==
  { <<"a", NL>>, <<"a", " ", "#", NL>>, <<"#", NL>>, <<"#", NL, "a">>, <<>> }

InstructionsTexts == { <<"#", NL>>, <<"a", NL>> }

TextsAt(path) ==
  IF path = Instructions THEN InstructionsTexts ELSE FileTexts

\* dirname(path)
dirname(path) == SubSeq(path, 1, Len(path) - 1)

\* the directories below the root on the way to the path
ancestors(path) == { SubSeq(path, 1, n) : n \in 1..(Len(path) - 1) }

\* Deno.mkdir(dirname(path), { recursive: true }) without effect
ensureDir_none(dirs, path) == dirs

\* Deno.mkdir(dirname(path), { recursive: true })
ensureDir(dirs, path) == dirs \cup ancestors(path)

\* the yield of walkFiles(root), as relative paths
walkFiles(tree) == { path \in DOMAIN tree : tree[path] # Null }

readFileIfExists(tree, path) == tree[path]

\* every path read under the left root as the first one
leftPathOf_first(rel) == <<"f">>

\* join(left, rel), relative to the left root
leftPathOf(rel) == rel

\* the test for the reserved file never succeeding
isInstructions_never(rel) == FALSE

\* rel === 'JJ-INSTRUCTIONS'
isInstructions(rel) == rel = Instructions

\* the map and filter over the lines of a file only the right root has
RECURSIVE filterLines(_)
filterLines(lines) ==
  IF lines = <<>> THEN <<>>
  ELSE LET l == Head(lines)
           rest == filterLines(Tail(lines))
       IN  IF isBlank(l) THEN <<(<<>>)>> \o rest
           ELSE IF isCommentOrWhitespace(l) THEN rest
           ELSE <<stripInlineComment(l)>> \o rest

\* the text written for a file only the right root has
filtered(rightTxt) ==
  LET norm == normalize(rightTxt)
  IN  join(filterLines(norm.lines)) \o norm.eol

\* the test before the write of a merged file, always succeeding
mergedDiffers_always(mergedTxt, rightTxt) == TRUE

\* merged !== rightTxt
mergedDiffers(mergedTxt, rightTxt) == mergedTxt # rightTxt

\* join(left, rel) where the path under the right root is meant
rightPath_left(rel) == [root |-> "left", rel |-> rel]

\* join(right, rel): the root and the path below it
rightPath(rel) == [root |-> "right", rel |-> rel]

\* a call that changes the file system, with the root and the path it names
fsCall(call, target) == [call |-> call, root |-> target.root, path |-> target.rel]

\* dirname of a path under a root
dirnameOf(target) == [root |-> target.root, rel |-> dirname(target.rel)]

\* the files under a root after a write or a copy to the target
afterWrite(tree, root, target, text) ==
  IF target.root = root THEN [tree EXCEPT ![target.rel] = text] ELSE tree

\* the directories under a root after ensureDir(dirname(target))
afterEnsureDir(dirs, root, target) ==
  IF target.root = root THEN ensureDir(dirs, target.rel) ELSE dirs


TreesOver(paths) ==
  { t \in [paths -> FileTexts \cup InstructionsTexts \cup {Null}] :
      \A path \in paths : t[path] \in TextsAt(path) \cup {Null} }

InitTree ==
  /\ IdleMerge
  /\ IdleLine
  /\ IdleAlign
  /\ leftTree \in TreesOver(Paths)
  /\ leftDirs = UNION { ancestors(path) : path \in walkFiles(leftTree) }
  /\ rightTree \in TreesOver(Paths)
  /\ rightDirs = UNION { ancestors(path) : path \in walkFiles(rightTree) }
  /\ right0 = rightTree
  /\ relPaths = {}
  /\ handled = {}
  /\ tpc = "call"
  /\ fsCalls = {}

\* the two loops that fill relPaths
WalkTrees ==
  /\ tpc = "call"
  /\ relPaths' = walkFiles(rightTree) \cup walkFiles(leftTree)
  /\ tpc' = "loop"
  /\ UNCHANGED <<leftTree, leftDirs, rightTree, rightDirs, right0, handled,
                 fsCalls>>
  /\ UNCHANGED <<mergeVars, lineVars, alignVars>>

leftTxtOf(rel) == readFileIfExists(leftTree, leftPathOf(rel))

rightTxtOf(rel) == readFileIfExists(rightTree, rel)

\* the iteration for the reserved file
SkipInstructions(rel) ==
  /\ tpc = "loop"
  /\ isInstructions(rel)
  /\ handled' = handled \cup {rel}
  /\ UNCHANGED <<leftTree, leftDirs, rightTree, rightDirs, right0, relPaths,
                 tpc, fsCalls>>
  /\ UNCHANGED <<mergeVars, lineVars, alignVars>>

\* the iteration for a file only the left root has
RestoreFile(rel) ==
  /\ tpc = "loop"
  /\ ~isInstructions(rel)
  /\ rightTxtOf(rel) = Null
  /\ leftTxtOf(rel) # Null
  /\ LET copied == leftTree[leftPathOf(rel)]
     IN  /\ rightDirs' = afterEnsureDir(rightDirs, "right", rightPath(rel))
         /\ leftDirs' = afterEnsureDir(leftDirs, "left", rightPath(rel))
         /\ rightTree' = afterWrite(rightTree, "right", rightPath(rel), copied)
         /\ leftTree' = afterWrite(leftTree, "left", rightPath(rel), copied)
  /\ fsCalls' = fsCalls \cup {fsCall("mkdir", dirnameOf(rightPath(rel))),
                               fsCall("copyFile", rightPath(rel))}
  /\ handled' = handled \cup {rel}
  /\ UNCHANGED <<right0, relPaths, tpc>>
  /\ UNCHANGED <<mergeVars, lineVars, alignVars>>

\* the iteration for a file only the right root has
FilterRightOnly(rel) ==
  /\ tpc = "loop"
  /\ ~isInstructions(rel)
  /\ ~(rightTxtOf(rel) = Null /\ leftTxtOf(rel) # Null)
  /\ leftTxtOf(rel) = Null
  /\ rightTxtOf(rel) # Null
  /\ LET filteredTxt == filtered(rightTxtOf(rel))
     IN  /\ rightDirs' = afterEnsureDir(rightDirs, "right", rightPath(rel))
         /\ leftDirs' = afterEnsureDir(leftDirs, "left", rightPath(rel))
         /\ rightTree' = afterWrite(rightTree, "right", rightPath(rel), filteredTxt)
         /\ leftTree' = afterWrite(leftTree, "left", rightPath(rel), filteredTxt)
  /\ fsCalls' = fsCalls \cup {fsCall("mkdir", dirnameOf(rightPath(rel))),
                               fsCall("writeTextFile", rightPath(rel))}
  /\ handled' = handled \cup {rel}
  /\ UNCHANGED <<right0, relPaths, tpc>>
  /\ UNCHANGED <<mergeVars, lineVars, alignVars>>

\* the iteration for a file both roots have, when the merge changes it
MergeWrite(rel) ==
  /\ tpc = "loop"
  /\ ~isInstructions(rel)
  /\ leftTxtOf(rel) # Null
  /\ rightTxtOf(rel) # Null
  /\ LET mergedTxt == mergeFileKeepingNonComments(leftTxtOf(rel), rightTxtOf(rel))
     IN  /\ mergedDiffers(mergedTxt, rightTxtOf(rel))
         /\ rightTree' = afterWrite(rightTree, "right", rightPath(rel), mergedTxt)
         /\ leftTree' = afterWrite(leftTree, "left", rightPath(rel), mergedTxt)
  /\ fsCalls' = fsCalls \cup {fsCall("writeTextFile", rightPath(rel))}
  /\ handled' = handled \cup {rel}
  /\ UNCHANGED <<leftDirs, rightDirs, right0, relPaths, tpc>>
  /\ UNCHANGED <<mergeVars, lineVars, alignVars>>

\* the iteration that falls through: the merge gives the right text back, or
\* neither root has the file
LeaveUnchanged(rel) ==
  /\ tpc = "loop"
  /\ ~isInstructions(rel)
  /\ \/ leftTxtOf(rel) = Null /\ rightTxtOf(rel) = Null
     \/ /\ leftTxtOf(rel) # Null
        /\ rightTxtOf(rel) # Null
        /\ ~mergedDiffers(mergeFileKeepingNonComments(leftTxtOf(rel),
                                                      rightTxtOf(rel)),
                          rightTxtOf(rel))
  /\ handled' = handled \cup {rel}
  /\ UNCHANGED <<leftTree, leftDirs, rightTree, rightDirs, right0, relPaths,
                 tpc, fsCalls>>
  /\ UNCHANGED <<mergeVars, lineVars, alignVars>>

\* the end of the loop over relPaths
ReturnTrees ==
  /\ tpc = "loop"
  /\ relPaths \subseteq handled
  /\ tpc' = "done"
  /\ UNCHANGED <<leftTree, leftDirs, rightTree, rightDirs, right0, relPaths,
                 handled, fsCalls>>
  /\ UNCHANGED <<mergeVars, lineVars, alignVars>>

\* the Set is gone through in the order the directories were listed, which
\* the code does not fix
Iterate ==
  \E rel \in relPaths \ handled :
    \/ SkipInstructions(rel)
    \/ RestoreFile(rel)
    \/ FilterRightOnly(rel)
    \/ MergeWrite(rel)
    \/ LeaveUnchanged(rel)

NextTree == WalkTrees \/ Iterate \/ ReturnTrees

SpecTree == InitTree /\ [][NextTree]_vars

TreeTypeOK ==
  /\ handled \subseteq relPaths
  /\ \A path \in walkFiles(rightTree) : ancestors(path) \subseteq rightDirs


\* the calls that wrote the file at the path
writesTo(path) == { c \in fsCalls : c.path = path /\ c.call # "mkdir" }

\* the right file at the path holds the merge of the left file and the right
\* file as it was, and was written only if the merge changed it
mergedInPlace(path) ==
  LET mergedTxt == mergeFileKeepingNonComments(leftTree[path], right0[path])
  IN  /\ rightTree[path] = mergedTxt
      /\ writesTo(path) # {} => mergedTxt # right0[path]

inBoth(path) == leftTree[path] # Null /\ right0[path] # Null

\* C13 as stated: for every relative path present under both roots the right
\* file ends as the merge of the left file and the prior right file, written
\* only when that differs from the prior right file.
C13_Original ==
  \A path \in handled : inBoth(path) => mergedInPlace(path)

\* C13: for every relative path present under both roots, other than
\* JJ-INSTRUCTIONS at the top, the right file ends as the merge of the left
\* file and the prior right file and is written only when that differs from
\* the prior right file; JJ-INSTRUCTIONS present under both roots stays as
\* it was.
C13_MergedInPlace ==
  \A path \in handled :
    inBoth(path) =>
      IF path = Instructions THEN rightTree[path] = right0[path]
      ELSE mergedInPlace(path)

\* a file in a subdirectory lost its added comment and was written, a file
\* at the top was the same on both sides and was not
C13_Witness ==
  /\ tpc = "done"
  /\ leftTree[<<"d", "f">>] = <<"a", NL>>
  /\ right0[<<"d", "f">>] = <<"a", " ", "#", NL>>
  /\ rightTree[<<"d", "f">>] = <<"a", NL>>
  /\ fsCall("writeTextFile", rightPath(<<"d", "f">>)) \in fsCalls
  /\ leftTree[<<"f">>] = <<"a", NL>>
  /\ right0[<<"f">>] = <<"a", NL>>
  /\ writesTo(<<"f">>) = {}

leftOnly(path) == leftTree[path] # Null /\ right0[path] = Null

\* the right root holds the left file at the path, in existing directories
restored(path) ==
  /\ rightTree[path] = leftTree[path]
  /\ ancestors(path) \subseteq rightDirs

\* C14 as stated: for every relative path present only under the left root
\* the right root ends with a copy of the left file at that path, its parent
\* directories created.
C14_Original ==
  \A path \in handled : leftOnly(path) => restored(path)

\* C14: for every relative path present only under the left root, other than
\* JJ-INSTRUCTIONS at the top, the right root ends with a copy of the left
\* file at that path, its parent directories created; JJ-INSTRUCTIONS
\* present only under the left root is not copied.
C14_RestoredFromLeft ==
  \A path \in handled :
    leftOnly(path) =>
      IF path = Instructions THEN rightTree[path] = Null
      ELSE restored(path)

\* a file with a comment in a subdirectory the right root did not have is
\* copied as it is, and the subdirectory exists
C14_Witness ==
  /\ tpc = "done"
  /\ right0[<<"d", "f">>] = Null
  /\ leftTree[<<"d", "f">>] = <<"a", " ", "#", NL>>
  /\ rightTree[<<"d", "f">>] = <<"a", " ", "#", NL>>
  /\ <<"d">> \in rightDirs
  /\ fsCall("mkdir", rightPath(<<"d">>)) \in fsCalls
  /\ fsCall("copyFile", rightPath(<<"d", "f">>)) \in fsCalls

\* C15: whatever the left root contains, the right root's JJ-INSTRUCTIONS is
\* never merged, filtered or overwritten: no call writes it and its content
\* stays what it was before the run.
C15_InstructionsUntouched ==
  tpc \in {"call", "loop", "done"} =>
    /\ rightTree[Instructions] = right0[Instructions]
    /\ \A c \in fsCalls : c.path # Instructions

\* the loop went through a JJ-INSTRUCTIONS that is a comment on the right and
\* code on the left, and the comment is still there
C15_Witness ==
  /\ tpc = "done"
  /\ Instructions \in handled
  /\ leftTree[Instructions] = <<"a", NL>>
  /\ right0[Instructions] = <<"#", NL>>
  /\ rightTree[Instructions] = <<"#", NL>>

\* C16: for every right text, what is written for a path only the right
\* root has equals mergeFileKeepingNonComments(null, rightText).
C16_OnePolicy ==
  \A path \in handled :
    (path # Instructions /\ leftTree[path] = Null /\ right0[path] # Null) =>
      rightTree[path] = mergeFileKeepingNonComments(Null, right0[path])

\* what one iteration makes of a path, from the two files at that path alone
outcome(path, leftTxt, rightTxt) ==
  IF path = Instructions THEN rightTxt
  ELSE IF rightTxt = Null /\ leftTxt # Null THEN leftTxt
  ELSE IF leftTxt = Null /\ rightTxt # Null THEN filtered(rightTxt)
  ELSE IF leftTxt # Null /\ rightTxt # Null
       THEN mergeFileKeepingNonComments(leftTxt, rightTxt)
  ELSE rightTxt

\* C17: in whatever order the relative paths are gone through, the content
\* of each right path is a function of that path's own left and right
\* files: a path gone through holds its outcome, any other path holds what
\* it held before the run.
C17_PerFileIndependence ==
  tpc \in {"loop", "done"} =>
    \A path \in Paths :
      rightTree[path] = IF path \in handled
                        THEN outcome(path, leftTree[path], right0[path])
                        ELSE right0[path]

\* three paths went three ways: one restored, one filtered, one skipped
C17_Witness ==
  /\ tpc = "done"
  /\ handled = Paths
  /\ leftOnly(<<"f">>)
  /\ rightTree[<<"f">>] = leftTree[<<"f">>]
  /\ leftTree[<<"d", "f">>] = Null
  /\ right0[<<"d", "f">>] = <<"#", NL, "a">>
  /\ rightTree[<<"d", "f">>] = <<"a">>


(***************************************************************************)
(* Escaped quotes in the scan of stripInlineComment.                       *)
(***************************************************************************)
\* the number of backslashes in a row that end at position p
RECURSIVE backslashRun(_, _)
backslashRun(line, p) ==
  IF p = 0 THEN 0
  ELSE IF line[p] = "\\" THEN 1 + backslashRun(line, p - 1)
  ELSE 0

\* the character at p comes right after an unescaped backslash
afterUnescapedBackslash(line, p) == backslashRun(line, p - 1) % 2 = 1

\* the quote that is open after the first p characters of the line ("" when
\* none is), a quote toggling unless it follows an unescaped backslash
RECURSIVE quoteOpenAfter(_, _)
quoteOpenAfter(line, p) ==
  IF p = 0 THEN ""
  ELSE LET before == quoteOpenAfter(line, p - 1)
           toggles == line[p] \in Quotes /\ ~afterUnescapedBackslash(line, p)
       IN  IF ~toggles THEN before
           ELSE IF before = "" THEN line[p]
           ELSE IF line[p] = before THEN ""
           ELSE before

\* the positions where a trailing comment starts under that rule
EscapeAwareStarts(line) ==
  { p \in 1..Len(line) :
      /\ isMarkerAt(line, p)
      /\ quoteOpenAfter(line, p) = ""
      /\ (p = 1 \/ isSpace(line[p - 1])) }

\* C21: a quote toggles string mode exactly when it does not follow an
\* unescaped backslash, a quote after an even run of backslashes included,
\* and a string is closed only by the quote that opened it; the line is cut
\* at the first marker outside the strings so delimited.
C21_EscapedBackslashToggles ==
  lpc = "done" =>
    stripped = IF EscapeAwareStarts(lineA) = {} THEN lineA
               ELSE trimEnd(SubSeq(lineA, 1, Min(EscapeAwareStarts(lineA)) - 1))


(***************************************************************************)
(* Comments of the right text and the output of the merge.                 *)
(***************************************************************************)
\* a line that carries no comment: not a full-line comment, and with nothing
\* for stripInlineComment to cut
commentFree(line) ==
  ~isFullLineComment(line) /\ stripInlineComment(line) = line

\* C22: every line of the merged output is a line of the left input
\* verbatim, or a line that is not a full-line comment and that
\* stripInlineComment leaves as it is; no comment of the right text reaches
\* the output.
C22_NoRightCommentInOutput ==
  pc \in {"loop", "done"} =>
    \A x \in 1..Len(st.out) :
      st.out[x] \in Range(leftNorm.lines) \/ commentFree(st.out[x])

\* the right text adds a full-line comment and a code line with a trailing
\* comment to a left text without them; the code alone is in the output
C22_Witness ==
  /\ pc = "done"
  /\ leftNorm.lines = << <<"b">> >>
  /\ rightNorm.lines = << <<"#">>, <<"a", " ", "/", "/">> >>
  /\ st.out = << <<"a">> >>


(***************************************************************************)
(* The left tree during a run of processTreesKeepingNonComments.           *)
(***************************************************************************)
\* C23: in every step of every run, whichever branch the path takes, the
\* files and the directories under the left root stay as they are, and every
\* call that creates or writes names a path under the right root.
C23_LeftTreeReadOnly ==
  [][ /\ leftTree' = leftTree
      /\ leftDirs' = leftDirs
      /\ \A c \in fsCalls' : c.root = "right" ]_vars

\* a run that restored a file into a new directory, wrote another file and
\* skipped the reserved one, the left root holding files in a directory
C23_Witness ==
  /\ tpc = "done"
  /\ Instructions \in handled
  /\ fsCall("mkdir", rightPath(<<"d">>)) \in fsCalls
  /\ fsCall("copyFile", rightPath(<<"d", "f">>)) \in fsCalls
  /\ fsCall("writeTextFile", rightPath(<<"f">>)) \in fsCalls
  /\ leftDirs = {<<"d">>}

====
